---------------------------- MODULE Spec2Model ----------------------------
(***************************************************************************)
(* Model of the query-resolution pipeline of QueryProcessingAgent          *)
(* (qp_agent.py): process_query runs _parse_query, _activate_ontology,     *)
(* _search_knowledge_base and _generate_analysis_spec in that order.       *)
(* A second specification, SpecFields, models the field analysis of        *)
(* MetadataDiscoveryAgent (mda_agent.py), which builds the knowledge base. *)
(*                                                                         *)
(* Python strings are TLA+ strings handled character by character, lists   *)
(* are sequences, dicts with optional keys are records whose DOMAIN holds  *)
(* the keys present.  The text-generation service (ollama.chat) is the     *)
(* environment: each call answers with any element of a finite set of      *)
(* responses, an exception included.  The timestamp of the specification   *)
(* (datetime.now()) and the file the specification is saved to are not     *)
(* modelled.                                                               *)
(***************************************************************************)
EXTENDS Integers, Sequences, FiniteSets, TLC

VARIABLES
    knowledge_base,    \* self.knowledge_base['datasets']
    ontology,          \* self.ontology: the triples, in the graph's iteration order
    pc,                \* position of process_query
    query,             \* argument of process_query
    parsed_query,      \* local of process_query (step 1)
    ontology_context,  \* local of process_query (step 2)
    relevant_data,     \* local of process_query (step 3)
    analysis_spec,     \* local of process_query (step 4), the value returned
    gen_calls,         \* the ollama.chat calls issued by the current process_query
    parse_response,    \* what the generation call of _parse_query answered
    synth_response,    \* what the generation call of _generate_analysis_spec answered
    ontology_queries,  \* the self.ontology.query calls issued by the current process_query
    loaded,            \* history: the knowledge base and the ontology as __init__ loaded them
    served,            \* history: an earlier process_query call on this agent has ended
    mda_pc,            \* position of MetadataDiscoveryAgent._analyze_fields
    max_fields,        \* self.max_fields of the MetadataDiscoveryAgent
    file_meta,         \* argument of _analyze_fields
    field_response,    \* what the generation call of _analyze_fields answered
    analyzed_fields    \* the list _analyze_fields returned

vars == <<knowledge_base, ontology, pc, query, parsed_query, ontology_context,
          relevant_data, analysis_spec, gen_calls, parse_response,
          synth_response, ontology_queries, loaded, served,
          mda_pc, max_fields, file_meta, field_response, analyzed_fields>>

\* the variables of the MetadataDiscoveryAgent
mda_vars == <<mda_pc, max_fields, file_meta, field_response, analyzed_fields>>

\* the variables of the QueryProcessingAgent
qp_vars == <<knowledge_base, ontology, pc, query, parsed_query, ontology_context,
             relevant_data, analysis_spec, gen_calls, parse_response,
             synth_response, ontology_queries, loaded, served>>

---------------------------------------------------------------------------
(* Bounds of the model *)

\* longest knowledge base enumerated exhaustively
MaxKB == 2

\* the long knowledge bases hold up to TopN + MaxExtra datasets
MaxExtra == 1

---------------------------------------------------------------------------
(* Python str and list operations *)

UpperChars == "ABCDEFGHIJKLMNOPQRSTUVWXYZ"

LowerChars == "abcdefghijklmnopqrstuvwxyz"

Whitespace == {" ", "\n", "\t", "\r"}

CharAt(s, i) == SubSeq(s, i, i)

\* s[i:] with a 1-based i
Suffix(s, i) == SubSeq(s, i, Len(s))

\* the lower-case letter of each upper-case letter
UpperToLower ==
    [c \in {CharAt(UpperChars, i) : i \in 1..Len(UpperChars)} |->
        CharAt(LowerChars, CHOOSE i \in 1..Len(UpperChars) : CharAt(UpperChars, i) = c)]

LowerChar(c) == IF c \in DOMAIN UpperToLower THEN UpperToLower[c] ELSE c

\* s with the letters at the positions lower-cased
RECURSIVE LowerAt(_, _)
LowerAt(s, positions) ==
    IF positions = {} THEN s
    ELSE LET i == CHOOSE p \in positions : TRUE
         IN  LowerAt(SubSeq(s, 1, i - 1) \o LowerChar(CharAt(s, i)) \o Suffix(s, i + 1),
                     positions \ {i})

\* str.lower(): the upper-case letters of s replaced by their lower-case letters
lower(s) ==
    LowerAt(s, {i \in 1..Len(s) : CharAt(s, i) \in DOMAIN UpperToLower})

\* sub in s
contains(s, sub) ==
    \E i \in 1..(Len(s) - Len(sub) + 1) : SubSeq(s, i, i + Len(sub) - 1) = sub

\* s.startswith(prefix)
startswith(s, prefix) ==
    Len(prefix) <= Len(s) /\ SubSeq(s, 1, Len(prefix)) = prefix

\* the first position at or after i where sub occurs in s; only used when there is one
RECURSIVE FindFrom(_, _, _)
FindFrom(s, sub, i) ==
    IF SubSeq(s, i, i + Len(sub) - 1) = sub THEN i ELSE FindFrom(s, sub, i + 1)

\* s.find(sub) as a 1-based position; only used when sub is in s
find(s, sub) == FindFrom(s, sub, 1)

\* s.split(sep), sep not empty
RECURSIVE split(_, _)
split(s, sep) ==
    IF ~contains(s, sep)
    THEN <<s>>
    ELSE LET k == find(s, sep)
         IN  <<SubSeq(s, 1, k - 1)>> \o split(Suffix(s, k + Len(sep)), sep)

\* the first position at or after i that holds no whitespace, Len(s) + 1 when none does
RECURSIVE SkipLeft(_, _)
SkipLeft(s, i) ==
    IF i <= Len(s) /\ CharAt(s, i) \in Whitespace THEN SkipLeft(s, i + 1) ELSE i

\* the last position at or before i that holds no whitespace, 0 when none does
RECURSIVE SkipRight(_, _)
SkipRight(s, i) ==
    IF i >= 1 /\ CharAt(s, i) \in Whitespace THEN SkipRight(s, i - 1) ELSE i

\* s.strip()
strip(s) == SubSeq(s, SkipLeft(s, 1), SkipRight(s, Len(s)))

\* seq[:n]
Prefix(seq, n) == SubSeq(seq, 1, IF Len(seq) < n THEN Len(seq) ELSE n)

\* d.get(key, default) on a dict modelled as a record
Get(d, key, default) == IF key \in DOMAIN d THEN d[key] ELSE default

EmptyDict == <<>>

---------------------------------------------------------------------------
(* The text-generation service: what one ollama.chat call can answer *)

\* no call has been made yet
NoResponse == [kind |-> "none", content |-> ""]

\* the call raised
Raises == [kind |-> "raises", content |-> ""]

\* the call returned a response without ['message']['content']
NoMessage == [kind |-> "no_message", content |-> ""]

\* the call returned a response whose ['message']['content'] is None
NoneContent == [kind |-> "none_content", content |-> ""]

\* the call returned a response whose ['message']['content'] is the string c
Content(c) == [kind |-> "content", content |-> c]

---------------------------------------------------------------------------
(* _parse_query *)

\* line.split(marker)[1]
AfterMarker(line, marker) == split(line, marker)[2]

\* ListField that leaves the empty parts out
ListFieldNonEmpty(line, marker) ==
    LET parts == split(AfterMarker(line, marker), ",")
        stripped == [i \in 1..Len(parts) |-> strip(parts[i])]
    IN  SelectSeq(stripped, LAMBDA part : part # "")

\* [c.strip() for c in line.split(marker)[1].split(',')]
ListField(line, marker) ==
    LET parts == split(AfterMarker(line, marker), ",")
    IN  [i \in 1..Len(parts) |-> strip(parts[i])]

\* EmptyParsed with the raw query as the default intent
EmptyParsedQueryIntent(q) ==
    [original_query |-> q, concepts |-> <<>>, entities |-> <<>>,
     filters |-> <<>>, spatial_relationships |-> <<>>, intent |-> q]

EmptyParsed(q) ==
    [original_query |-> q, concepts |-> <<>>, entities |-> <<>>,
     filters |-> <<>>, spatial_relationships |-> <<>>, intent |-> ""]

\* one iteration of the loop over the lines of the response
ParseLine(parsed, rawline) ==
    LET line == strip(rawline)
    IN  IF startswith(line, "CONCEPTS:")
        THEN [parsed EXCEPT !.concepts = ListField(line, "CONCEPTS:")]
        ELSE IF startswith(line, "ENTITIES:")
        THEN [parsed EXCEPT !.entities = ListField(line, "ENTITIES:")]
        ELSE IF startswith(line, "FILTERS:")
        THEN [parsed EXCEPT !.filters = ListField(line, "FILTERS:")]
        ELSE IF startswith(line, "SPATIAL:")
        THEN [parsed EXCEPT !.spatial_relationships =
                                <<strip(AfterMarker(line, "SPATIAL:"))>>]
        ELSE IF startswith(line, "INTENT:")
        THEN [parsed EXCEPT !.intent = strip(AfterMarker(line, "INTENT:"))]
        ELSE parsed

\* ParseFallback that leaves the intent empty
ParseFallbackNoIntent(q) ==
    [original_query |-> q, concepts |-> <<>>, entities |-> <<>>,
     filters |-> <<>>, spatial_relationships |-> <<>>, intent |-> ""]

\* the except branch
ParseFallback(q) == [EmptyParsed(q) EXCEPT !.intent = q]

\* _parse_query(query) when the generation call answers response
ParseQueryResult(q, response) ==
    IF response.kind = "content"
    THEN LET lines == split(response.content, "\n")
             parsed[i \in 0..Len(lines)] ==
                 IF i = 0 THEN EmptyParsed(q)
                 ELSE ParseLine(parsed[i - 1], lines[i])
         IN  parsed[Len(lines)]
    ELSE ParseFallback(q)

---------------------------------------------------------------------------
(* _search_knowledge_base *)

\* Credit that does not repeat a reason the list already holds
CreditOncePerReason(acc, points, reason) ==
    [relevance_score |-> acc.relevance_score + points,
     reasons |-> IF \E j \in 1..Len(acc.reasons) : acc.reasons[j] = reason
                 THEN acc.reasons
                 ELSE Append(acc.reasons, reason)]

\* relevance_score += points; reasons.append(reason)
Credit(acc, points, reason) ==
    [relevance_score |-> acc.relevance_score + points,
     reasons |-> Append(acc.reasons, reason)]

\* MatchConcepts that credits the domain and the represents text separately
MatchConceptsPerField(acc, concepts, domain, represents) ==
    LET a[i \in 0..Len(concepts)] ==
            IF i = 0 THEN acc
            ELSE LET in_domain ==
                         IF contains(domain, concepts[i])
                         THEN Credit(a[i - 1], 2, "Matches concept: " \o concepts[i])
                         ELSE a[i - 1]
                 IN  IF contains(represents, concepts[i])
                     THEN Credit(in_domain, 2, "Matches concept: " \o concepts[i])
                     ELSE in_domain
    IN  a[Len(concepts)]

\* for concept in concepts: match against domain and represents
MatchConcepts(acc, concepts, domain, represents) ==
    LET a[i \in 0..Len(concepts)] ==
            IF i = 0 THEN acc
            ELSE IF contains(domain, concepts[i]) \/ contains(represents, concepts[i])
                 THEN Credit(a[i - 1], 2, "Matches concept: " \o concepts[i])
                 ELSE a[i - 1]
    IN  a[Len(concepts)]

\* the entity without its plural s
Singular(entity) ==
    IF Len(entity) > 1 /\ CharAt(entity, Len(entity)) = "s"
    THEN SubSeq(entity, 1, Len(entity) - 1)
    ELSE entity

\* MatchEntities that also accepts the singular of the entity
MatchEntitiesSingular(acc, entities, represents) ==
    LET a[i \in 0..Len(entities)] ==
            IF i = 0 THEN acc
            ELSE IF contains(represents, Singular(entities[i]))
                 THEN Credit(a[i - 1], 2, "Contains entity: " \o entities[i])
                 ELSE a[i - 1]
    IN  a[Len(entities)]

\* for entity in entities: match against represents
MatchEntities(acc, entities, represents) ==
    LET a[i \in 0..Len(entities)] ==
            IF i = 0 THEN acc
            ELSE IF contains(represents, entities[i])
                 THEN Credit(a[i - 1], 2, "Contains entity: " \o entities[i])
                 ELSE a[i - 1]
    IN  a[Len(entities)]

\* GeometryMatches without the elif branch
GeometryMatchesPolygonOnly(entity, geometry) ==
    (contains(entity, "parcel") \/ contains(entity, "building"))
        /\ contains(geometry, "polygon")

\* the if / elif of the geometry loop: both branches credit the same
GeometryMatches(entity, geometry) ==
    \/ (contains(entity, "parcel") \/ contains(entity, "building"))
          /\ contains(geometry, "polygon")
    \/ (contains(entity, "transit") \/ contains(entity, "stop"))
          /\ contains(geometry, "point")

\* for entity in entities: match the entity kind against the geometry type
MatchGeometry(acc, entities, geometry) ==
    LET a[i \in 0..Len(entities)] ==
            IF i = 0 THEN acc
            ELSE IF GeometryMatches(entities[i], geometry)
                 THEN Credit(a[i - 1], 1, "Geometry matches entity type")
                 ELSE a[i - 1]
    IN  a[Len(entities)]

\* MatchTasks that credits a task once for every concept it holds
MatchTasksPerConcept(acc, concepts, capable_tasks) ==
    LET a[i \in 0..Len(capable_tasks)] ==
            IF i = 0 THEN acc
            ELSE LET b[j \in 0..Len(concepts)] ==
                         IF j = 0 THEN a[i - 1]
                         ELSE IF contains(lower(capable_tasks[i]), concepts[j])
                              THEN Credit(b[j - 1], 1,
                                          "Capable of related task: " \o capable_tasks[i])
                              ELSE b[j - 1]
                 IN  b[Len(concepts)]
    IN  a[Len(capable_tasks)]

\* for task in capable_tasks: any(concept in task_lower for concept in concepts)
MatchTasks(acc, concepts, capable_tasks) ==
    LET a[i \in 0..Len(capable_tasks)] ==
            IF i = 0 THEN acc
            ELSE IF \E j \in 1..Len(concepts) :
                        contains(lower(capable_tasks[i]), concepts[j])
                 THEN Credit(a[i - 1], 1,
                             "Capable of related task: " \o capable_tasks[i])
                 ELSE a[i - 1]
    IN  a[Len(capable_tasks)]

\* ScoreDataset that gives up on a dataset without a complete semantic_context
ScoreDatasetAnnotatedOnly(dataset, concepts, entities) ==
    IF /\ "semantic_context" \in DOMAIN dataset
       /\ {"represents", "domain"} \subseteq DOMAIN dataset.semantic_context
    THEN LET represents == lower(dataset.semantic_context.represents)
             domain == lower(dataset.semantic_context.domain)
             spatial_ctx == Get(dataset, "spatial_context", EmptyDict)
             geometry == lower(Get(spatial_ctx, "geometry_type", ""))
             s0 == [relevance_score |-> 0, reasons |-> <<>>]
             s1 == MatchConcepts(s0, concepts, domain, represents)
             s2 == MatchEntities(s1, entities, represents)
             s3 == MatchGeometry(s2, entities, geometry)
         IN  MatchTasks(s3, concepts, Get(dataset, "capable_tasks", <<>>))
    ELSE [relevance_score |-> 0, reasons |-> <<>>]

\* the body of the loop over the datasets: the score and reasons of one dataset,
\* concepts and entities already lower-cased
ScoreDataset(dataset, concepts, entities) ==
    LET semantic == Get(dataset, "semantic_context", EmptyDict)
        represents == lower(Get(semantic, "represents", ""))
        domain == lower(Get(semantic, "domain", ""))
        spatial_ctx == Get(dataset, "spatial_context", EmptyDict)
        geometry == lower(Get(spatial_ctx, "geometry_type", ""))
        capable_tasks == Get(dataset, "capable_tasks", <<>>)
        s0 == [relevance_score |-> 0, reasons |-> <<>>]
        s1 == MatchConcepts(s0, concepts, domain, represents)
        s2 == MatchEntities(s1, entities, represents)
        s3 == MatchGeometry(s2, entities, geometry)
    IN  MatchTasks(s3, concepts, capable_tasks)

\* IsRelevant with >= for >
IsRelevantOrZero(relevance_score) == relevance_score >= 0

\* if relevance_score > 0
IsRelevant(relevance_score) == relevance_score > 0

\* InsertByRelevance that puts x in front of the entries of equal score
InsertBeforeTies(sorted, x) ==
    LET k == Cardinality({j \in 1..Len(sorted) :
                             sorted[j].relevance_score > x.relevance_score})
    IN  SubSeq(sorted, 1, k) \o <<x>> \o SubSeq(sorted, k + 1, Len(sorted))

\* where x lands in a list already sorted by non-increasing score: behind every
\* entry that scores at least as much (list.sort is stable, also with reverse=True)
InsertByRelevance(sorted, x) ==
    LET k == Cardinality({j \in 1..Len(sorted) :
                             sorted[j].relevance_score >= x.relevance_score})
    IN  SubSeq(sorted, 1, k) \o <<x>> \o SubSeq(sorted, k + 1, Len(sorted))

\* relevant_datasets.sort(key=lambda x: x['relevance_score'], reverse=True)
SortByRelevance(list) ==
    LET sorted[i \in 0..Len(list)] ==
            IF i = 0 THEN <<>> ELSE InsertByRelevance(sorted[i - 1], list[i])
    IN  sorted[Len(list)]

LowerAll(list) == [i \in 1..Len(list) |-> lower(list[i])]

\* _search_knowledge_base(parsed_query) on the knowledge base kb.  The 'dataset'
\* of an entry is a reference to the dataset object of kb: its position in kb
SearchKnowledgeBase(kb, parsed) ==
    LET concepts == LowerAll(parsed.concepts)
        entities == LowerAll(parsed.entities)
        relevant_datasets[i \in 0..Len(kb)] ==
            IF i = 0 THEN <<>>
            ELSE LET scored == ScoreDataset(kb[i], concepts, entities)
                 IN  IF IsRelevant(scored.relevance_score)
                     THEN Append(relevant_datasets[i - 1],
                                 [dataset |-> i,
                                  relevance_score |-> scored.relevance_score,
                                  reasons |-> scored.reasons])
                     ELSE relevant_datasets[i - 1]
    IN  SortByRelevance(relevant_datasets[Len(kb)])

---------------------------------------------------------------------------
(* The ontology graph and _activate_ontology *)

NS == "http://urbanplanning.org/ontology#"

RDF_TYPE == "http://www.w3.org/1999/02/22-rdf-syntax-ns#type"

RDFS_LABEL == "http://www.w3.org/2000/01/rdf-schema#label"

\* Flatten that leaves out what the list already holds
FlattenDistinct(lists) ==
    LET all[i \in 0..Len(lists)] ==
            IF i = 0 THEN <<>> ELSE all[i - 1] \o lists[i]
        whole == all[Len(lists)]
        kept[k \in 0..Len(whole)] ==
            IF k = 0 THEN <<>>
            ELSE IF \E j \in 1..(k - 1) : whole[j] = whole[k]
                 THEN kept[k - 1]
                 ELSE Append(kept[k - 1], whole[k])
    IN  kept[Len(whole)]

\* xs + ys + ... for a list of lists
Flatten(lists) ==
    LET acc[i \in 0..Len(lists)] ==
            IF i = 0 THEN <<>> ELSE acc[i - 1] \o lists[i]
    IN  acc[Len(lists)]

\* the triples of the graph with subject s, in the graph's order
TriplesOf(ont, s) == SelectSeq(ont, LAMBDA t : t[1] = s)

\* LabelRows over the labelled nodes of every type
LabelRowsAnyType(ont, term_type) ==
    LET labelled == SelectSeq(ont, LAMBDA t : t[2] = RDFS_LABEL)
    IN  [i \in 1..Len(labelled) |-> [term |-> labelled[i][1], label |-> labelled[i][3]]]

\* SELECT ?term ?label WHERE { ?term a :term_type . ?term rdfs:label ?label }
LabelRows(ont, term_type) ==
    LET typed == SelectSeq(ont, LAMBDA t : t[2] = RDF_TYPE /\ t[3] = NS \o term_type)
        labels(s) == SelectSeq(TriplesOf(ont, s), LAMBDA t : t[2] = RDFS_LABEL)
    IN  Flatten([i \in 1..Len(typed) |->
                    [j \in 1..Len(labels(typed[i][1])) |->
                        [term |-> typed[i][1],
                         label |-> labels(typed[i][1])[j][3]]]])

\* if term_lower in label or label in term_lower
FuzzyMatches(term_lower, label) ==
    contains(label, term_lower) \/ contains(term_lower, label)

\* _fuzzy_match_ontology_term(term, term_type)
FuzzyMatchOntologyTerm(ont, term, term_type) ==
    LET rows == LabelRows(ont, term_type)
        matching == SelectSeq(rows, LAMBDA row : FuzzyMatches(lower(term), lower(row.label)))
    IN  [i \in 1..Len(matching) |-> matching[i].term]

\* RelationsOf without the type and label edges of the concept
RelationsOfDomainOnly(ont, concept_uri) ==
    LET rows == SelectSeq(TriplesOf(ont, concept_uri),
                          LAMBDA t : t[2] \notin {RDF_TYPE, RDFS_LABEL})
    IN  [i \in 1..Len(rows) |->
            [subject |-> concept_uri, predicate |-> rows[i][2], object |-> rows[i][3]]]

\* SELECT ?relation ?target WHERE { <concept_uri> ?relation ?target }
RelationsOf(ont, concept_uri) ==
    LET rows == TriplesOf(ont, concept_uri)
    IN  [i \in 1..Len(rows) |->
            [subject |-> concept_uri, predicate |-> rows[i][2], object |-> rows[i][3]]]

\* SELECT ?method WHERE { ?method a :AnalysisMethod . ?method :appliesTo <entity_uri> }
MethodsApplicableTo(ont, entity_uri) ==
    LET typed == SelectSeq(ont, LAMBDA t : t[2] = RDF_TYPE /\ t[3] = NS \o "AnalysisMethod")
        applies == SelectSeq(typed, LAMBDA t :
                       \E k \in 1..Len(ont) :
                           ont[k] = <<t[1], NS \o "appliesTo", entity_uri>>)
    IN  [i \in 1..Len(applies) |-> applies[i][1]]

\* str(row.method).split('#')[-1]
MethodName(method) ==
    LET parts == split(method, "#") IN parts[Len(parts)]

\* AppendIfAbsent without the membership test
AppendAlways(list, x) == Append(list, x)

\* if method_name not in relevant_methods: relevant_methods.append(method_name)
AppendIfAbsent(list, x) ==
    IF \E i \in 1..Len(list) : list[i] = x THEN list ELSE Append(list, x)

\* _activate_ontology(parsed_query)
ActivateOntology(ont, parsed) ==
    LET concepts == parsed.concepts
        entities == parsed.entities
        relevant_concepts ==
            Flatten([i \in 1..Len(concepts) |->
                        FuzzyMatchOntologyTerm(ont, concepts[i], "PlanningConcept")])
        relevant_entities ==
            Flatten([i \in 1..Len(entities) |->
                        FuzzyMatchOntologyTerm(ont, entities[i], "UrbanEntity")])
        relationships ==
            Flatten([i \in 1..Len(relevant_concepts) |->
                        RelationsOf(ont, relevant_concepts[i])])
        found ==
            Flatten([i \in 1..Len(relevant_entities) |->
                        MethodsApplicableTo(ont, relevant_entities[i])])
        methods[i \in 0..Len(found)] ==
            IF i = 0 THEN <<>>
            ELSE AppendIfAbsent(methods[i - 1], MethodName(found[i]))
    IN  [relevant_concepts |-> relevant_concepts,
         relevant_entities |-> relevant_entities,
         relevant_methods |-> methods[Len(found)],
         relationships |-> relationships]

\* one self.ontology.query call: which of the three SELECTs, and the term type
\* or the node it is about
OntologyQuery(select, about) == [select |-> select, about |-> about]

\* OntologyQueries that fetches the labels once before the loops
OntologyQueriesPrefetch(parsed, context) ==
    <<OntologyQuery("labels", "PlanningConcept")>>
    \o [i \in 1..Len(context.relevant_concepts) |->
           OntologyQuery("relations", context.relevant_concepts[i])]
    \o [i \in 1..Len(context.relevant_entities) |->
           OntologyQuery("methods", context.relevant_entities[i])]

\* the self.ontology.query calls of _activate_ontology(parsed_query) when it
\* activates context, in the order issued: one per concept and one per entity
\* inside _fuzzy_match_ontology_term, one per matched concept, one per matched
\* entity
OntologyQueries(parsed, context) ==
    [i \in 1..Len(parsed.concepts) |-> OntologyQuery("labels", "PlanningConcept")]
    \o [i \in 1..Len(parsed.entities) |-> OntologyQuery("labels", "UrbanEntity")]
    \o [i \in 1..Len(context.relevant_concepts) |->
           OntologyQuery("relations", context.relevant_concepts[i])]
    \o [i \in 1..Len(context.relevant_entities) |->
           OntologyQuery("methods", context.relevant_entities[i])]

---------------------------------------------------------------------------
(* Values decoded from JSON, as Python holds them.  Every value carries the  *)
(* same three fields: its type, its text (a str's characters, the JSON text  *)
(* of a number or of a list, which the pipeline only passes on), and the     *)
(* key/value pairs of a dict in insertion order.                             *)

PyStr(s) == [t |-> "str", s |-> s, items |-> <<>>]

PyNum(s) == [t |-> "int", s |-> s, items |-> <<>>]

PyList(s) == [t |-> "list", s |-> s, items |-> <<>>]

PyNone == [t |-> "NoneType", s |-> "", items |-> <<>>]

PyDict(items) == [t |-> "dict", s |-> "", items |-> items]

\* workflow.get(key, default) on a dict value
DictGet(d, key, default) ==
    IF \E i \in 1..Len(d.items) : d.items[i][1] = key
    THEN d.items[CHOOSE i \in 1..Len(d.items) : d.items[i][1] = key][2]
    ELSE default

---------------------------------------------------------------------------
(* _generate_analysis_spec.  The prompt built from the query, the intent, the *)
(* first five ranked datasets and the methods only feeds the generation call, *)
(* whose answer is any response: it is not modelled.                          *)

\* required_data holds relevant_data[:10]
TopN == 10

JFull ==
    "{\"steps\": [{\"step\": 1}], \"data_sufficiency\": \"sufficient\", \"missing_data\": [\"zoning\"], \"alternatives\": \"none\"}"

JPartial == "{\"steps\": [{\"step\": 1}], \"data_sufficiency\": \"partial\"}"

JInsufficient == "{\"steps\": [], \"data_sufficiency\": \"insufficient\", \"missing_data\": [\"zoning\"]}"

JTemplate == "{\"data_sufficiency\": \"sufficient/partial/insufficient\"}"

JCapital == "{\"data_sufficiency\": \"Sufficient\"}"

JNullStatus == "{\"data_sufficiency\": null}"

JEmptyObject == "{}"

JList == "[]"

JString == "\"sufficient\""

JNumber == "42"

JNull == "null"

JsonError == [ok |-> FALSE, value |-> PyNone]

JsonValue(v) == [ok |-> TRUE, value |-> v]

\* json.loads(text): the value Python decodes from each of the texts above;
\* every other text of the model is not JSON and raises JSONDecodeError
JsonLoads(text) ==
    CASE text = JFull ->
            JsonValue(PyDict(<< <<"steps", PyList("[{\"step\": 1}]")>>,
                                <<"data_sufficiency", PyStr("sufficient")>>,
                                <<"missing_data", PyList("[\"zoning\"]")>>,
                                <<"alternatives", PyStr("none")>> >>))
      [] text = JPartial ->
            JsonValue(PyDict(<< <<"steps", PyList("[{\"step\": 1}]")>>,
                                <<"data_sufficiency", PyStr("partial")>> >>))
      [] text = JInsufficient ->
            JsonValue(PyDict(<< <<"steps", PyList("[]")>>,
                                <<"data_sufficiency", PyStr("insufficient")>>,
                                <<"missing_data", PyList("[\"zoning\"]")>> >>))
      [] text = JTemplate ->
            JsonValue(PyDict(<< <<"data_sufficiency",
                                  PyStr("sufficient/partial/insufficient")>> >>))
      [] text = JCapital ->
            JsonValue(PyDict(<< <<"data_sufficiency", PyStr("Sufficient")>> >>))
      [] text = JNullStatus ->
            JsonValue(PyDict(<< <<"data_sufficiency", PyNone>> >>))
      [] text = JEmptyObject -> JsonValue(PyDict(<<>>))
      [] text = JList -> JsonValue(PyList("[]"))
      [] text = JString -> JsonValue(PyStr("sufficient"))
      [] text = JNumber -> JsonValue(PyNum("42"))
      [] text = JNull -> JsonValue(PyNone)
      [] OTHER -> JsonError

\* the fence of a fenced block.  A TLA+ string cannot hold the backquote, so
\* the model writes the backquote as the tilde, in the code's literals and in
\* the responses alike; no other text of the model holds a tilde
Fence == "~~~"

\* ExtractJson that only knows the fence with the json tag
ExtractJsonTaggedOnly(raw) ==
    LET content == strip(raw)
    IN  IF contains(content, Fence \o "json")
        THEN strip(split(split(content, Fence \o "json")[2], Fence)[1])
        ELSE content

\* content.strip(), then the text inside the first fenced block when there is one
ExtractJson(raw) ==
    LET content == strip(raw)
    IN  IF contains(content, Fence \o "json")
        THEN strip(split(split(content, Fence \o "json")[2], Fence)[1])
        ELSE IF contains(content, Fence)
        THEN strip(split(split(content, Fence)[2], Fence)[1])
        ELSE content

\* FallbackWorkflow with another status
FallbackWorkflowInsufficient ==
    PyDict(<< <<"steps", PyList("[]")>>,
              <<"data_sufficiency", PyStr("insufficient")>>,
              <<"missing_data", PyList("[]")>>,
              <<"alternatives", PyStr("Manual workflow design needed")>> >>)

\* the workflow of the except branch
FallbackWorkflow ==
    PyDict(<< <<"steps", PyList("[]")>>,
              <<"data_sufficiency", PyStr("unknown")>>,
              <<"missing_data", PyList("[]")>>,
              <<"alternatives", PyStr("Manual workflow design needed")>> >>)

\* the try / except: whatever json.loads returns, or the fallback when the call,
\* the access to the content or the decoding raises
Workflow(response) ==
    IF response.kind # "content"
    THEN FallbackWorkflow
    ELSE LET decoded == JsonLoads(ExtractJson(response.content))
         IN  IF decoded.ok THEN decoded.value ELSE FallbackWorkflow

\* workflow.get exists on a dict only: on any other value "Build final
\* specification" raises AttributeError, outside the try
HasGet(workflow) == workflow.t = "dict"

\* CanComplete that ignores case
CanCompleteAnyCase(workflow) ==
    lower(DictGet(workflow, "data_sufficiency", PyNone).s) = "sufficient"

\* 'can_complete': workflow.get('data_sufficiency') == 'sufficient'
CanComplete(workflow) ==
    DictGet(workflow, "data_sufficiency", PyNone) = PyStr("sufficient")

\* Status without the 'unknown' default
StatusNoDefault(workflow) == DictGet(workflow, "data_sufficiency", PyNone)

\* 'status': workflow.get('data_sufficiency', 'unknown')
Status(workflow) == DictGet(workflow, "data_sufficiency", PyStr("unknown"))

\* RequiredData over the whole ranking
RequiredDataAll(kb, relevant) ==
    [i \in 1..Len(relevant) |->
        [dataset |-> kb[relevant[i].dataset].file_name,
         file_path |-> kb[relevant[i].dataset].file_path,
         status |-> "available",
         relevance_score |-> relevant[i].relevance_score,
         why_relevant |-> relevant[i].reasons]]

\* [{...} for d in relevant_data[:10]]
RequiredData(kb, relevant) ==
    LET top == Prefix(relevant, TopN)
    IN  [i \in 1..Len(top) |->
            [dataset |-> kb[top[i].dataset].file_name,
             file_path |-> kb[top[i].dataset].file_path,
             status |-> "available",
             relevance_score |-> top[i].relevance_score,
             why_relevant |-> top[i].reasons]]

\* SpecQuery that trims the query
SpecQueryStripped(original_query) == strip(original_query)

\* 'query': original_query
SpecQuery(original_query) == original_query

\* analysis_spec = {...}
BuildSpec(kb, original_query, parsed, context, relevant, workflow) ==
    [query |-> SpecQuery(original_query),
     parsed_query |-> parsed,
     ontology_context |-> [concepts |-> context.relevant_concepts,
                           entities |-> context.relevant_entities,
                           methods |-> context.relevant_methods],
     required_data |-> RequiredData(kb, relevant),
     analysis_workflow |-> DictGet(workflow, "steps", PyList("[]")),
     sufficiency_check |->
         [can_complete |-> CanComplete(workflow),
          status |-> Status(workflow),
          missing_data |-> DictGet(workflow, "missing_data", PyList("[]")),
          alternatives |-> DictGet(workflow, "alternatives", PyStr(""))]]

---------------------------------------------------------------------------
(* The knowledge bases, the ontology, the queries and the responses of the   *)
(* generation service the model ranges over                                  *)

DensityParcels ==
    [file_name |-> "density.shp", file_path |-> "/data/density.shp",
     data_type |-> "geospatial",
     semantic_context |-> [represents |-> "Parcel level housing density",
                           domain |-> "Residential density"],
     spatial_context |-> [geometry_type |-> "Polygon"],
     capable_tasks |-> <<"Density analysis", "Zoning compliance checking">>]

ActivityCenters ==
    [file_name |-> "centers.shp", file_path |-> "/data/centers.shp",
     data_type |-> "geospatial",
     semantic_context |-> [represents |-> "activity center boundaries",
                           domain |-> "accessibility"],
     spatial_context |-> [geometry_type |-> "Polygon"],
     capable_tasks |-> <<>>]

TransitStops ==
    [file_name |-> "stops.shp", file_path |-> "/data/stops.shp",
     data_type |-> "geospatial",
     semantic_context |-> [represents |-> "Transit stops",
                           domain |-> "transportation"],
     spatial_context |-> [geometry_type |-> "Point"],
     capable_tasks |-> <<"Transit accessibility analysis">>]

\* a record without semantic_context, spatial_context and capable_tasks
BareTable ==
    [file_name |-> "notes.csv", file_path |-> "/data/notes.csv",
     data_type |-> "tabular"]

DatasetPool == {DensityParcels, ActivityCenters, TransitStops, BareTable}

\* the knowledge bases of up to MaxKB datasets, no file listed twice
SmallKBs ==
    UNION {{kb \in [1..n -> DatasetPool] :
               \A i, j \in 1..n : i # j => kb[i].file_path # kb[j].file_path} :
           n \in 0..MaxKB}

DigitChars == "0123456789"

Decimal(n) ==
    IF n < Len(DigitChars)
    THEN CharAt(DigitChars, n + 1)
    ELSE CharAt(DigitChars, (n \div Len(DigitChars)) + 1)
             \o CharAt(DigitChars, (n % Len(DigitChars)) + 1)

ScoredPool == <<DensityParcels, ActivityCenters, TransitStops>>

\* a knowledge base of n files that repeat the three annotated datasets
LongKB(n) ==
    [i \in 1..n |->
        LET base == ScoredPool[((i - 1) % Len(ScoredPool)) + 1]
        IN  [base EXCEPT !.file_name = Decimal(i) \o "_" \o base.file_name,
                         !.file_path = "/data/" \o Decimal(i) \o "_" \o base.file_name]]

LongKBs == {LongKB(n) : n \in TopN..(TopN + MaxExtra)}

\* records the annotation left incomplete: without semantic_context, without
\* its represents, without its domain
NoSemantic ==
    [file_name |-> "sketch.shp", file_path |-> "/data/sketch.shp",
     data_type |-> "geospatial",
     spatial_context |-> [geometry_type |-> "Polygon"],
     capable_tasks |-> <<"Density mapping">>]

NoRepresents ==
    [file_name |-> "blocks.shp", file_path |-> "/data/blocks.shp",
     data_type |-> "geospatial",
     semantic_context |-> [domain |-> "Residential density"],
     spatial_context |-> [geometry_type |-> "Polygon"],
     capable_tasks |-> <<>>]

NoDomain ==
    [file_name |-> "halts.shp", file_path |-> "/data/halts.shp",
     data_type |-> "geospatial",
     semantic_context |-> [represents |-> "Transit stops and parcels"],
     spatial_context |-> [geometry_type |-> "Point"],
     capable_tasks |-> <<>>]

SparseKBs == {<<NoSemantic, NoRepresents, NoDomain>>}

KnowledgeBases == SmallKBs \cup LongKBs \cup SparseKBs

PlanningOntology ==
    << <<NS \o "Density", RDF_TYPE, NS \o "PlanningConcept">>,
       <<NS \o "Density", RDFS_LABEL, "Density">>,
       <<NS \o "Density", NS \o "measuredOn", NS \o "Parcel">>,
       <<NS \o "Accessibility", RDF_TYPE, NS \o "PlanningConcept">>,
       <<NS \o "Accessibility", RDFS_LABEL, "Accessibility">>,
       <<NS \o "Accessibility", RDFS_LABEL, "Transit accessibility">>,
       <<NS \o "Parcel", RDF_TYPE, NS \o "UrbanEntity">>,
       <<NS \o "Parcel", RDFS_LABEL, "Parcel">>,
       <<NS \o "TransitStop", RDF_TYPE, NS \o "UrbanEntity">>,
       <<NS \o "TransitStop", RDFS_LABEL, "Transit Stop">>,
       <<NS \o "BufferAnalysis", RDF_TYPE, NS \o "AnalysisMethod">>,
       <<NS \o "BufferAnalysis", RDFS_LABEL, "Buffer analysis">>,
       <<NS \o "BufferAnalysis", NS \o "appliesTo", NS \o "Parcel">>,
       <<NS \o "BufferAnalysis", NS \o "appliesTo", NS \o "TransitStop">>,
       <<NS \o "DensityCalculation", RDF_TYPE, NS \o "AnalysisMethod">>,
       <<NS \o "DensityCalculation", NS \o "appliesTo", NS \o "Parcel">>,
       <<NS \o "Walkability", RDF_TYPE, NS \o "PlanningConcept">> >>

Ontologies == {PlanningOntology}

Queries == {" Find Dense Parcels ", "transit stops"}

\* what the generation call of _parse_query may answer
ParseResponses ==
    {Raises, NoMessage, NoneContent,
     Content(""),
     Content("I cannot parse this query."),
     Content("Here you go: CONCEPTS: density"),
     Content("CONCEPTS: density, accessibility\nENTITIES: parcels, transit stops\nFILTERS: residential only\nSPATIAL: near\nINTENT: find dense parcels"),
     Content("  CONCEPTS: Density , density\n\nENTITIES: activity centers\n"),
     Content("ENTITIES: Transit Stop, building\nINTENT: locate stops"),
     Content("CONCEPTS: accessibility\nENTITIES: activity centers"),
     Content("CONCEPTS:\nINTENT: unclear"),
     Content("CONCEPTS: density, density\nENTITIES: parcels, Parcel"),
     Content("FILTERS: residential, FILTERS: vacant\nSPATIAL: within, near")}

\* what the generation call of _generate_analysis_spec may answer
SynthResponses ==
    {Raises, NoMessage, NoneContent,
     Content(""),
     Content("Sorry, no workflow."),
     Content(JFull),
     Content(" " \o JPartial \o "\n"),
     Content(Fence \o "json\n" \o JFull \o "\n" \o Fence),
     Content("Here is the plan:\n" \o Fence \o "\n" \o JInsufficient \o "\n" \o Fence \o "\nDone."),
     Content("Plan:\n" \o Fence \o "json\n" \o JPartial \o "\n" \o Fence \o "\nEnd."),
     Content(Fence \o "\n" \o JFull \o "\n" \o Fence),
     Content(JTemplate),
     Content(JCapital),
     Content(JNullStatus),
     Content(JEmptyObject),
     Content(JList),
     Content(JString),
     Content(JNumber),
     Content(JNull)}

---------------------------------------------------------------------------
(* MetadataDiscoveryAgent._analyze_fields (mda_agent.py): the batch analysis *)
(* of the fields of one dataset.  The prompt only feeds the generation call  *)
(* and is not modelled.                                                      *)

\* max_fields: int = 10
DefaultMaxFields == 10

\* f.get('type', 'unknown') of the first field of that name, 'unknown' when
\* there is none
TypeOfField(fields_to_analyze, field_name) ==
    LET at == {i \in 1..Len(fields_to_analyze) : fields_to_analyze[i].name = field_name}
    IN  IF at = {} THEN "unknown"
        ELSE Get(fields_to_analyze[CHOOSE i \in at : \A j \in at : i <= j],
                 "type", "unknown")

\* if current_field: a dict is true when it holds a key
IsTrue(current_field) == DOMAIN current_field # {}

\* one iteration of the loop over the lines of the response
AnalyzeLine(acc, rawline, fields_to_analyze) ==
    LET line == strip(rawline)
        current_field == acc.current_field
    IN  IF startswith(line, "FIELD:")
        THEN [analyzed_fields |->
                  IF IsTrue(current_field)
                  THEN Append(acc.analyzed_fields, current_field)
                  ELSE acc.analyzed_fields,
              current_field |->
                  LET field_name == strip(AfterMarker(line, "FIELD:"))
                  IN  [name |-> field_name,
                       type |-> TypeOfField(fields_to_analyze, field_name),
                       meaning |-> "Unknown",
                       category |-> "unknown"]]
        ELSE IF startswith(line, "MEANING:") /\ IsTrue(current_field)
        THEN [acc EXCEPT !.current_field.meaning = strip(AfterMarker(line, "MEANING:"))]
        ELSE IF startswith(line, "CATEGORY:") /\ IsTrue(current_field)
        THEN [acc EXCEPT !.current_field.category =
                             lower(strip(AfterMarker(line, "CATEGORY:")))]
        ELSE IF line = "---" /\ IsTrue(current_field)
        THEN [analyzed_fields |-> Append(acc.analyzed_fields, current_field),
              current_field |-> EmptyDict]
        ELSE acc

\* the entry of a field the analysis has no result for
BasicInfo(field, meaning) ==
    [name |-> field.name, type |-> Get(field, "type", "unknown"),
     meaning |-> meaning, category |-> "unknown"]

\* "Ensure we have results for all fields (fallback)": runs only when there are
\* fewer results than fields
FillMissing(analyzed, fields_to_analyze) ==
    IF Len(analyzed) < Len(fields_to_analyze)
    THEN LET a[i \in 0..Len(fields_to_analyze)] ==
                 IF i = 0 THEN analyzed
                 ELSE IF \E j \in 1..Len(a[i - 1]) :
                             a[i - 1][j].name = fields_to_analyze[i].name
                      THEN a[i - 1]
                      ELSE Append(a[i - 1],
                                  BasicInfo(fields_to_analyze[i], "Parse failed"))
         IN  a[Len(fields_to_analyze)]
    ELSE analyzed

\* _analyze_fields(file_meta) when the generation call answers response
AnalyzeFieldsResult(meta, limit, response) ==
    IF "features" \notin DOMAIN meta \/ meta.features = <<>>
    THEN <<>>
    ELSE LET fields_to_analyze == Prefix(meta.features, limit)
         IN  IF response.kind = "content"
             THEN LET lines == split(response.content, "\n")
                      acc[i \in 0..Len(lines)] ==
                          IF i = 0
                          THEN [analyzed_fields |-> <<>>, current_field |-> EmptyDict]
                          ELSE AnalyzeLine(acc[i - 1], lines[i], fields_to_analyze)
                      last == acc[Len(lines)]
                      analyzed ==
                          IF IsTrue(last.current_field)
                          THEN Append(last.analyzed_fields, last.current_field)
                          ELSE last.analyzed_fields
                  IN  FillMissing(analyzed, fields_to_analyze)
             ELSE [i \in 1..Len(fields_to_analyze) |->
                      BasicInfo(fields_to_analyze[i], "Analysis failed")]

\* no file has been analysed yet
NoFileMeta == [file_name |-> ""]

Pop == [name |-> "pop", type |-> "int"]

\* a field the scanner recorded without a type
Zone == [name |-> "zone"]

Area == [name |-> "area", type |-> "float"]

\* the file metadata the scanner hands over: without features, with an empty
\* feature list, with one to three fields
FileMetas ==
    {[file_name |-> "report.pdf"],
     [file_name |-> "empty.csv", features |-> <<>>],
     [file_name |-> "pop.csv", features |-> <<Pop>>],
     [file_name |-> "zones.shp", features |-> <<Pop, Zone>>],
     [file_name |-> "parcels.shp", features |-> <<Pop, Zone, Area>>],
     [file_name |-> "areas.shp", features |-> <<Area, Pop>>]}

MaxFieldsValues == {1, 2, DefaultMaxFields}

\* what the generation call of _analyze_fields may answer
FieldResponses ==
    {Raises, NoMessage, NoneContent,
     Content(""),
     Content("FIELD: pop\nMEANING: Population count\nCATEGORY: Numerical\n---\nFIELD: zone\nMEANING: Zoning code\nCATEGORY: categorical\n---\nFIELD: area\nMEANING: Area\nCATEGORY: numerical\n---"),
     Content("  FIELD: pop\n  MEANING: Population count"),
     Content("FIELD: population\nMEANING: People\n---\nFIELD: zoning\n---\nFIELD: acres\n---"),
     Content("FIELD: pop\n---\nFIELD: pop\nMEANING: Population again\n---"),
     Content("FIELD: zone\n---\nFIELD: <field_name>\nMEANING: <brief description>\n---"),
     Content("MEANING: orphan\nCATEGORY: spatial\n---")}

---------------------------------------------------------------------------
(* The agent *)

EmptyContext ==
    [relevant_concepts |-> <<>>, relevant_entities |-> <<>>,
     relevant_methods |-> <<>>, relationships |-> <<>>]

\* what analysis_spec holds before _generate_analysis_spec has built one
NoSpec == BuildSpec(<<>>, "", EmptyParsed(""), EmptyContext, <<>>, PyDict(<<>>))

\* __init__: the knowledge base and the ontology are loaded
Init ==
    /\ knowledge_base \in KnowledgeBases
    /\ ontology \in Ontologies
    /\ pc = "idle"
    /\ query = ""
    /\ parsed_query = EmptyParsed("")
    /\ ontology_context = EmptyContext
    /\ relevant_data = <<>>
    /\ analysis_spec = NoSpec
    /\ gen_calls = <<>>
    /\ parse_response = NoResponse
    /\ synth_response = NoResponse
    /\ ontology_queries = <<>>
    /\ loaded = [knowledge_base |-> knowledge_base, ontology |-> ontology]
    /\ served = FALSE
    /\ mda_pc = "idle"
    /\ max_fields = DefaultMaxFields
    /\ file_meta = NoFileMeta
    /\ field_response = NoResponse
    /\ analyzed_fields = <<>>

\* Begin that leaves the intent, the context and the ranking of the previous
\* call in place
BeginKeepsLocals(q) ==
    /\ pc \in {"idle", "returned", "raised"}
    /\ pc' = "parse"
    /\ query' = q
    /\ analysis_spec' = NoSpec
    /\ gen_calls' = <<>>
    /\ parse_response' = NoResponse
    /\ synth_response' = NoResponse
    /\ ontology_queries' = <<>>
    /\ served' = (pc # "idle")
    /\ UNCHANGED <<knowledge_base, ontology, loaded, parsed_query,
                   ontology_context, relevant_data,
                   mda_vars>>

\* process_query(query) is called, on a new agent or after an earlier call has
\* ended: its locals are fresh
Begin(q) ==
    /\ pc \in {"idle", "returned", "raised"}
    /\ pc' = "parse"
    /\ query' = q
    /\ parsed_query' = EmptyParsed("")
    /\ ontology_context' = EmptyContext
    /\ relevant_data' = <<>>
    /\ analysis_spec' = NoSpec
    /\ gen_calls' = <<>>
    /\ parse_response' = NoResponse
    /\ synth_response' = NoResponse
    /\ ontology_queries' = <<>>
    /\ served' = (pc # "idle")
    /\ UNCHANGED <<knowledge_base, ontology, loaded,
                   mda_vars>>

\* Parse that repeats the generation call once when it failed
ParseRetrying(response) ==
    /\ pc = "parse"
    /\ parsed_query' = ParseQueryResult(query, response)
    /\ gen_calls' = IF response.kind # "content"
                     THEN gen_calls \o <<"parse", "parse">>
                     ELSE Append(gen_calls, "parse")
    /\ parse_response' = response
    /\ pc' = "activate"
    /\ UNCHANGED <<knowledge_base, ontology, query, ontology_context,
                   relevant_data, analysis_spec, synth_response,
                   ontology_queries, loaded, served,
                   mda_vars>>

\* Step 1: parsed_query = self._parse_query(query)
Parse(response) ==
    /\ pc = "parse"
    /\ parsed_query' = ParseQueryResult(query, response)
    /\ gen_calls' = Append(gen_calls, "parse")
    /\ parse_response' = response
    /\ pc' = "activate"
    /\ UNCHANGED <<knowledge_base, ontology, query, ontology_context,
                   relevant_data, analysis_spec, synth_response,
                   ontology_queries, loaded, served,
                   mda_vars>>

\* Step 2: ontology_context = self._activate_ontology(parsed_query)
Activate ==
    /\ pc = "activate"
    /\ LET context == ActivateOntology(ontology, parsed_query)
       IN  /\ ontology_context' = context
           /\ ontology_queries' = OntologyQueries(parsed_query, context)
    /\ pc' = "search"
    /\ UNCHANGED <<knowledge_base, ontology, query, parsed_query,
                   relevant_data, analysis_spec, gen_calls, parse_response,
                   synth_response, loaded, served,
                   mda_vars>>

\* Search that sorts the datasets of the knowledge base itself by relevance,
\* the datasets that score nothing behind the others
SearchSortsInPlace ==
    /\ pc = "search"
    /\ LET ranking == SearchKnowledgeBase(knowledge_base, parsed_query)
           unranked == SelectSeq(knowledge_base,
                           LAMBDA d : \A j \in 1..Len(ranking) :
                                         knowledge_base[ranking[j].dataset] # d)
       IN  /\ knowledge_base' =
                  [j \in 1..Len(ranking) |-> knowledge_base[ranking[j].dataset]]
                      \o unranked
           /\ relevant_data' = [j \in 1..Len(ranking) |->
                                   [ranking[j] EXCEPT !.dataset = j]]
    /\ pc' = "generate"
    /\ UNCHANGED <<ontology, query, parsed_query,
                   ontology_context, analysis_spec, gen_calls, parse_response,
                   synth_response, ontology_queries, loaded, served,
                   mda_vars>>

\* Step 3: relevant_data = self._search_knowledge_base(parsed_query)
Search ==
    /\ pc = "search"
    /\ relevant_data' = SearchKnowledgeBase(knowledge_base, parsed_query)
    /\ pc' = "generate"
    /\ UNCHANGED <<knowledge_base, ontology, query, parsed_query,
                   ontology_context, analysis_spec, gen_calls, parse_response,
                   synth_response, ontology_queries, loaded, served,
                   mda_vars>>

\* Step 4: analysis_spec = self._generate_analysis_spec(...), then return it
Generate(response) ==
    /\ pc = "generate"
    /\ LET workflow == Workflow(response)
       IN  /\ HasGet(workflow)
           /\ analysis_spec' = BuildSpec(knowledge_base, query, parsed_query,
                                         ontology_context, relevant_data, workflow)
    /\ gen_calls' = Append(gen_calls, "synthesize")
    /\ synth_response' = response
    /\ pc' = "returned"
    /\ UNCHANGED <<knowledge_base, ontology, query, parsed_query,
                   ontology_context, relevant_data, parse_response,
                   ontology_queries, loaded, served,
                   mda_vars>>

\* Step 4 when the decoded workflow has no get: AttributeError leaves
\* _generate_analysis_spec and process_query
GenerateRaises(response) ==
    /\ pc = "generate"
    /\ ~HasGet(Workflow(response))
    /\ gen_calls' = Append(gen_calls, "synthesize")
    /\ synth_response' = response
    /\ pc' = "raised"
    /\ UNCHANGED <<knowledge_base, ontology, query, parsed_query,
                   ontology_context, relevant_data, analysis_spec,
                   parse_response, ontology_queries, loaded, served,
                   mda_vars>>

Next ==
    \/ \E q \in Queries : Begin(q)
    \/ \E response \in ParseResponses : Parse(response)
    \/ Activate
    \/ Search
    \/ \E response \in SynthResponses : Generate(response)
    \/ \E response \in SynthResponses : GenerateRaises(response)

Spec == Init /\ [][Next]_vars

\* MetadataDiscoveryAgent.__init__: max_fields is set, no file analysed yet;
\* no QueryProcessingAgent is running
InitFields ==
    /\ mda_pc = "idle"
    /\ max_fields \in MaxFieldsValues
    /\ file_meta = NoFileMeta
    /\ field_response = NoResponse
    /\ analyzed_fields = <<>>
    /\ knowledge_base = <<>>
    /\ ontology = PlanningOntology
    /\ pc = "idle"
    /\ query = ""
    /\ parsed_query = EmptyParsed("")
    /\ ontology_context = EmptyContext
    /\ relevant_data = <<>>
    /\ analysis_spec = NoSpec
    /\ gen_calls = <<>>
    /\ parse_response = NoResponse
    /\ synth_response = NoResponse
    /\ ontology_queries = <<>>
    /\ loaded = [knowledge_base |-> knowledge_base, ontology |-> ontology]
    /\ served = FALSE

\* "fields": self._analyze_fields(file_meta), for the next file of discover's
\* loop over the files
AnalyzeFields(meta, response) ==
    /\ mda_pc \in {"idle", "analysed"}
    /\ file_meta' = meta
    /\ field_response' = IF "features" \notin DOMAIN meta \/ meta.features = <<>>
                          THEN NoResponse
                          ELSE response
    /\ analyzed_fields' = AnalyzeFieldsResult(meta, max_fields, response)
    /\ mda_pc' = "analysed"
    /\ UNCHANGED <<max_fields, qp_vars>>

NextFields == \E meta \in FileMetas, response \in FieldResponses : AnalyzeFields(meta, response)

SpecFields == InitFields /\ [][NextFields]_vars

---------------------------------------------------------------------------
(* Properties *)

\* process_query has run step 1 / step 3 / has returned its specification
Parsed == pc \in {"activate", "search", "generate", "returned", "raised"}

Ranked == pc \in {"generate", "returned", "raised"}

Returned == pc = "returned"

\* the score the scoring rules give dataset i of the knowledge base for the
\* parsed intent
ScoreOf(i) ==
    ScoreDataset(knowledge_base[i], LowerAll(parsed_query.concepts),
                 LowerAll(parsed_query.entities)).relevance_score

PositivelyScored ==
    LET concepts == LowerAll(parsed_query.concepts)
        entities == LowerAll(parsed_query.entities)
    IN  {i \in 1..Len(knowledge_base) :
            ScoreDataset(knowledge_base[i], concepts, entities).relevance_score > 0}

\* C1: the ranking holds exactly the datasets of the knowledge base whose score
\* is above 0, each exactly once and with that score, so it is never longer
\* than the knowledge base
C1_RankIsPositiveSubset ==
    Ranked =>
        /\ {relevant_data[j].dataset : j \in 1..Len(relevant_data)} = PositivelyScored
        /\ \A j, k \in 1..Len(relevant_data) :
               j # k => relevant_data[j].dataset # relevant_data[k].dataset
        /\ \A j \in 1..Len(relevant_data) :
               relevant_data[j].relevance_score = ScoreOf(relevant_data[j].dataset)
        /\ Len(relevant_data) <= Len(knowledge_base)

\* a ranking that keeps some datasets and leaves a dataset scoring 0 out
C1_Witness ==
    /\ Ranked
    /\ Len(relevant_data) >= 1
    /\ \E i \in 1..Len(knowledge_base) : ScoreOf(i) = 0

\* C2: the ranking is ordered by non-increasing relevance_score, and entries of
\* equal score stand in the order of their datasets in the knowledge base
C2_RankSortedStable ==
    Ranked =>
        \A j, k \in 1..Len(relevant_data) :
            j < k =>
                /\ relevant_data[j].relevance_score >= relevant_data[k].relevance_score
                /\ relevant_data[j].relevance_score = relevant_data[k].relevance_score
                       => relevant_data[j].dataset < relevant_data[k].dataset

\* a ranking the sort had to reorder, with a tie in it
C2_Witness ==
    /\ Ranked
    /\ \E j, k \in 1..Len(relevant_data) :
           /\ j < k
           /\ relevant_data[j].relevance_score = relevant_data[k].relevance_score
    /\ \E j, k \in 1..Len(relevant_data) :
           /\ j < k
           /\ relevant_data[j].dataset > relevant_data[k].dataset
           /\ relevant_data[j].relevance_score > relevant_data[k].relevance_score

\* the generation call failed: it raised, or its response lacks the
\* message/content structure
CallFailed(response) == response.kind \in {"raises", "no_message", "none_content"}

\* C3: when the generation call of parse fails, parse returns the degraded
\* intent: original_query and intent both the raw query, every list empty
C3_ParseFailureDegrades ==
    (Parsed /\ CallFailed(parse_response)) =>
        parsed_query = [original_query |-> query, concepts |-> <<>>,
                        entities |-> <<>>, filters |-> <<>>,
                        spatial_relationships |-> <<>>, intent |-> query]

\* parse has returned after a failed call, for a query that is not empty
C3_Witness ==
    /\ pc = "activate"
    /\ parse_response = Raises
    /\ query # ""
    /\ parsed_query.intent = query

Markers == {"CONCEPTS:", "ENTITIES:", "FILTERS:", "SPATIAL:", "INTENT:"}

\* no line of the text starts with a marker
NoMarkerLine(text) ==
    LET lines == split(text, "\n")
    IN  \A i \in 1..Len(lines) : \A m \in Markers : ~startswith(strip(lines[i]), m)

\* the call of parse succeeded and its response holds no marker line
UnmarkedResponse ==
    /\ Parsed
    /\ parse_response.kind = "content"
    /\ NoMarkerLine(parse_response.content)

C5_NeverRaises == pc # "raised"

\* the response of synthesize, decoded the way the code decodes it
Decoded == JsonLoads(ExtractJson(synth_response.content))

\* the call of synthesize failed or its response is not JSON, d its decoding
DecodeFailedIn(d) ==
    CallFailed(synth_response) \/ (synth_response.kind = "content" /\ ~d.ok)

DecodeFailed == DecodeFailedIn(Decoded)

\* C6: when the call of synthesize fails or its response cannot be decoded, the
\* specification has an empty workflow, status "unknown", can_complete false,
\* no missing data and the note that manual design is needed
C6_DecodeFailureFallsBack ==
    (Returned /\ DecodeFailed) =>
        /\ analysis_spec.analysis_workflow = PyList("[]")
        /\ analysis_spec.sufficiency_check =
               [can_complete |-> FALSE,
                status |-> PyStr("unknown"),
                missing_data |-> PyList("[]"),
                alternatives |-> PyStr("Manual workflow design needed")]

\* a specification returned on a response that is text but not JSON
C6_Witness ==
    /\ Returned
    /\ synth_response = Content("Sorry, no workflow.")
    /\ analysis_spec.sufficiency_check.status = PyStr("unknown")

\* the data_sufficiency value of the workflow the response decoded to, as the
\* service gave it; "unknown" when the decoding failed or the workflow holds none
GivenSufficiency ==
    LET d == Decoded
        at == {i \in 1..Len(d.value.items) : d.value.items[i][1] = "data_sufficiency"}
    IN  IF DecodeFailedIn(d) \/ at = {}
        THEN PyStr("unknown")
        ELSE d.value.items[CHOOSE i \in at : TRUE][2]

\* C7: can_complete is true exactly when the sufficiency value of the workflow
\* is the string "sufficient"
C7_CanCompleteIffSufficient ==
    Returned =>
        /\ analysis_spec.sufficiency_check.can_complete
               <=> (GivenSufficiency = PyStr("sufficient"))
        /\ analysis_spec.sufficiency_check.can_complete
               <=> (analysis_spec.sufficiency_check.status = PyStr("sufficient"))

\* a specification that can complete, from a response inside a fenced block
C7_Witness ==
    /\ Returned
    /\ analysis_spec.sufficiency_check.can_complete
    /\ contains(synth_response.content, Fence)

SufficiencyValues ==
    {PyStr("sufficient"), PyStr("partial"), PyStr("insufficient"), PyStr("unknown")}

\* C8 as stated: the status of every returned specification is one of
\* sufficient, partial, insufficient, unknown
C8_Original ==
    Returned => analysis_spec.sufficiency_check.status \in SufficiencyValues

\* C8, amended: the status is the data_sufficiency value of the decoded workflow
\* as the service gave it, whatever it is, and "unknown" when the workflow holds
\* none or the fallback workflow was used
C8_StatusIsGivenValue ==
    Returned => analysis_spec.sufficiency_check.status = GivenSufficiency

\* a specification whose workflow holds no data_sufficiency at all
C8_Witness ==
    /\ Returned
    /\ synth_response = Content(JEmptyObject)
    /\ analysis_spec.sufficiency_check.status = PyStr("unknown")

Min(a, b) == IF a < b THEN a ELSE b

\* C9: required_data is the projection of the first min(10, n) entries of the
\* ranking, in order, n the number of positively-scored datasets; its scores do
\* not increase
C9_RequiredDataIsTopTen ==
    Returned =>
        /\ Len(analysis_spec.required_data) = Min(10, Cardinality(PositivelyScored))
        /\ \A i \in 1..Len(analysis_spec.required_data) :
               analysis_spec.required_data[i] =
                   [dataset |-> knowledge_base[relevant_data[i].dataset].file_name,
                    file_path |-> knowledge_base[relevant_data[i].dataset].file_path,
                    status |-> "available",
                    relevance_score |-> relevant_data[i].relevance_score,
                    why_relevant |-> relevant_data[i].reasons]
        /\ \A i, j \in 1..Len(analysis_spec.required_data) :
               i < j => analysis_spec.required_data[i].relevance_score
                            >= analysis_spec.required_data[j].relevance_score

\* a specification built from a ranking of more than ten datasets
C9_Witness ==
    /\ Returned
    /\ Cardinality(PositivelyScored) > 10
    /\ Len(analysis_spec.required_data) = 10

\* C10: the specification carries the query character for character, as query
\* and as parsed_query.original_query
C10_QueryVerbatim ==
    Returned =>
        /\ analysis_spec.query = query
        /\ analysis_spec.parsed_query.original_query = query

\* a specification returned for a query with capitals and outer blanks
C10_Witness ==
    /\ Returned
    /\ strip(query) # query
    /\ lower(query) # query
    /\ analysis_spec.query = query

\* the dataset of the scenario: domain "accessibility", represents "activity
\* center boundaries", geometry type "Polygon"
ScenarioDataset(dataset) ==
    /\ "semantic_context" \in DOMAIN dataset
    /\ "spatial_context" \in DOMAIN dataset
    /\ dataset.semantic_context.domain = "accessibility"
    /\ dataset.semantic_context.represents = "activity center boundaries"
    /\ dataset.spatial_context.geometry_type = "Polygon"

\* rank has run on the scenario: a knowledge base holding the scenario's dataset
\* alone, concepts = ["accessibility"], entities = ["activity centers"]
ScenarioRanked ==
    /\ Ranked
    /\ Len(knowledge_base) = 1
    /\ ScenarioDataset(knowledge_base[1])
    /\ parsed_query.concepts = <<"accessibility">>
    /\ parsed_query.entities = <<"activity centers">>

\* C11 as stated: on the scenario rank returns the dataset with relevance_score
\* 4 and exactly 2 reasons
C11_Original ==
    ScenarioRanked =>
        /\ Len(relevant_data) = 1
        /\ relevant_data[1].dataset = 1
        /\ relevant_data[1].relevance_score = 4
        /\ Len(relevant_data[1].reasons) = 2

\* C11, amended: on the scenario rank returns the dataset with relevance_score
\* 2 and exactly 1 reason, the concept/domain match: "activity centers" is not a
\* substring of "activity center boundaries", so the entity adds nothing
C11_ScenarioScoresTwo ==
    ScenarioRanked =>
        relevant_data = <<[dataset |-> 1, relevance_score |-> 2,
                           reasons |-> <<"Matches concept: accessibility">>]>>

\* rank has returned the scenario's dataset
C11_Witness ==
    /\ ScenarioRanked
    /\ pc = "generate"
    /\ Len(relevant_data) = 1
    /\ ~contains(knowledge_base[1].semantic_context.represents,
                 parsed_query.entities[1])

\* _activate_ontology has just returned: ontology_context holds its result
Activated == pc = "search"

\* how often x stands in the list
Occurrences(list, x) == Cardinality({i \in 1..Len(list) : list[i] = x})

\* the nodes of the graph declared of the type
TypedNodes(term_type) ==
    {ontology[k][1] : k \in {j \in 1..Len(ontology) :
                                 /\ ontology[j][2] = RDF_TYPE
                                 /\ ontology[j][3] = NS \o term_type}}

\* the label triples of the node that match the term: ignoring case, the label
\* is inside the term or the term inside the label
MatchingLabels(node, term) ==
    {k \in 1..Len(ontology) :
        /\ ontology[k][1] = node
        /\ ontology[k][2] = RDFS_LABEL
        /\ \/ contains(lower(ontology[k][3]), lower(term))
           \/ contains(lower(term), lower(ontology[k][3]))}

\* the pairs of a position of the terms and a label of the node matching it
Matchings(node, terms) ==
    UNION {{<<i, k>> : k \in MatchingLabels(node, terms[i])} : i \in 1..Len(terms)}

\* the positions of the terms at least one label of the node matches
MatchingTerms(node, terms) == {p[1] : p \in Matchings(node, terms)}

\* matched is the concatenation, in the order of the terms, of what matchTerm
\* returns for each of them
IsConcatenationOfMatches(matched, terms, term_type) ==
    matched = Flatten([i \in 1..Len(terms) |->
                          FuzzyMatchOntologyTerm(ontology, terms[i], term_type)])

\* C12 as stated: relevant_concepts and relevant_entities concatenate the
\* matches of every concept and every entity, and a node matched by k
\* occurrences of a term stands k times in the list
C12_Original ==
    Activated =>
        /\ IsConcatenationOfMatches(ontology_context.relevant_concepts,
                                    parsed_query.concepts, "PlanningConcept")
        /\ IsConcatenationOfMatches(ontology_context.relevant_entities,
                                    parsed_query.entities, "UrbanEntity")
        /\ \A n \in TypedNodes("PlanningConcept") :
               Occurrences(ontology_context.relevant_concepts, n)
                   = Cardinality(MatchingTerms(n, parsed_query.concepts))
        /\ \A n \in TypedNodes("UrbanEntity") :
               Occurrences(ontology_context.relevant_entities, n)
                   = Cardinality(MatchingTerms(n, parsed_query.entities))

\* C12, amended: relevant_concepts and relevant_entities concatenate the
\* matches of every concept and every entity, repeated ones included, without
\* de-duplication; a node stands in the list once for every pair of an
\* occurrence of a term and a label of the node that matches it, and no other
\* node stands in it
C12_ActivateKeepsDuplicates ==
    Activated =>
        /\ IsConcatenationOfMatches(ontology_context.relevant_concepts,
                                    parsed_query.concepts, "PlanningConcept")
        /\ IsConcatenationOfMatches(ontology_context.relevant_entities,
                                    parsed_query.entities, "UrbanEntity")
        /\ \A n \in TypedNodes("PlanningConcept") :
               Occurrences(ontology_context.relevant_concepts, n)
                   = Cardinality(Matchings(n, parsed_query.concepts))
        /\ \A n \in TypedNodes("UrbanEntity") :
               Occurrences(ontology_context.relevant_entities, n)
                   = Cardinality(Matchings(n, parsed_query.entities))
        /\ \A i \in 1..Len(ontology_context.relevant_concepts) :
               ontology_context.relevant_concepts[i] \in TypedNodes("PlanningConcept")
        /\ \A i \in 1..Len(ontology_context.relevant_entities) :
               ontology_context.relevant_entities[i] \in TypedNodes("UrbanEntity")

\* activate has run on an intent that repeats a concept and names two entities
\* matching one node: both nodes stand twice in their lists
C12_Witness ==
    /\ Activated
    /\ \E i, j \in 1..Len(parsed_query.concepts) :
           i < j /\ parsed_query.concepts[i] = parsed_query.concepts[j]
    /\ \E n \in TypedNodes("PlanningConcept") :
           Occurrences(ontology_context.relevant_concepts, n) = 2
    /\ \E n \in TypedNodes("UrbanEntity") :
           /\ Cardinality(MatchingTerms(n, parsed_query.entities)) = 2
           /\ Occurrences(ontology_context.relevant_entities, n) = 2

\* the AnalysisMethod nodes with an appliesTo edge to the entity, as positions
\* of their type triples in the graph
MethodsFor(entity_uri) ==
    {k \in 1..Len(ontology) :
        /\ ontology[k][2] = RDF_TYPE
        /\ ontology[k][3] = NS \o "AnalysisMethod"
        /\ \E j \in 1..Len(ontology) :
               ontology[j] = <<ontology[k][1], NS \o "appliesTo", entity_uri>>}

\* the text after the last # of the node id
LocalName(node) ==
    LET at == {i \in 1..Len(node) : CharAt(node, i) = "#"}
    IN  IF at = {} THEN node
        ELSE Suffix(node, (CHOOSE i \in at : \A j \in at : j <= i) + 1)

\* where the walk over relevant_entities, and over the methods of each in the
\* order of the graph, meets a method of that name: the position of the
\* entity and, within it, of the method
Discoveries(name) ==
    UNION {{<<e, k>> : k \in {m \in MethodsFor(ontology_context.relevant_entities[e]) :
                                  LocalName(ontology[m][1]) = name}} :
           e \in 1..Len(ontology_context.relevant_entities)}

Earlier(p, q) == p[1] < q[1] \/ (p[1] = q[1] /\ p[2] < q[2])

FirstDiscovery(name) ==
    CHOOSE p \in Discoveries(name) : \A q \in Discoveries(name) : p = q \/ Earlier(p, q)

\* C13: relevant_methods holds no name twice; it holds exactly the local names
\* of the AnalysisMethod nodes with an appliesTo edge to some relevant entity,
\* in the order of their first discovery
C13_MethodsDistinctInDiscoveryOrder ==
    Activated =>
        LET methods == ontology_context.relevant_methods
        IN  /\ \A i, j \in 1..Len(methods) : i # j => methods[i] # methods[j]
            /\ {methods[i] : i \in 1..Len(methods)}
                   = {LocalName(ontology[k][1]) :
                         k \in UNION {MethodsFor(ontology_context.relevant_entities[e]) :
                                         e \in 1..Len(ontology_context.relevant_entities)}}
            /\ \A i, j \in 1..Len(methods) :
                   i < j => Earlier(FirstDiscovery(methods[i]), FirstDiscovery(methods[j]))

\* activate has run on entities that hold two nodes sharing a method, and found
\* two methods
C13_Witness ==
    /\ Activated
    /\ \E i, j \in 1..Len(ontology_context.relevant_entities) :
           /\ i < j
           /\ ontology_context.relevant_entities[i] # ontology_context.relevant_entities[j]
           /\ MethodsFor(ontology_context.relevant_entities[i])
                  \cap MethodsFor(ontology_context.relevant_entities[j]) # {}
    /\ Len(ontology_context.relevant_methods) = 2

\* process_query has run step 2
AfterActivate == pc \in {"search", "generate", "returned", "raised"}

\* C14: activate on an intent without concepts and without entities returns a
\* context whose four lists are empty and issues no query against the ontology
C14_EmptyIntentActivatesNothing ==
    (AfterActivate /\ parsed_query.concepts = <<>> /\ parsed_query.entities = <<>>) =>
        /\ ontology_context = [relevant_concepts |-> <<>>, relevant_entities |-> <<>>,
                               relevant_methods |-> <<>>, relationships |-> <<>>]
        /\ ontology_queries = <<>>

\* activate has returned for an intent without concepts and entities, parsed
\* from a response that was delivered, on an ontology that is not empty
C14_Witness ==
    /\ pc = "search"
    /\ parse_response.kind = "content"
    /\ parsed_query.concepts = <<>>
    /\ parsed_query.entities = <<>>
    /\ Len(ontology) > 0
    /\ ontology_queries = <<>>

\* C15: a run of process_query issues exactly one generation call in parse and
\* at most one in synthesize, none of them repeated after a failure: no call
\* before parse has run, the parse call alone until synthesize has run, then
\* the parse call followed by the synthesize call, never more than two
C15_OneCallPerStage ==
    /\ pc \in {"idle", "parse"} => gen_calls = <<>>
    /\ pc \in {"activate", "search", "generate"} => gen_calls = <<"parse">>
    /\ pc \in {"returned", "raised"} => gen_calls = <<"parse", "synthesize">>
    /\ Occurrences(gen_calls, "parse") <= 1
    /\ Occurrences(gen_calls, "synthesize") <= 1
    /\ Len(gen_calls) <= 2

\* process_query has returned although both generation calls failed, having
\* issued each of them once
C15_Witness ==
    /\ Returned
    /\ CallFailed(parse_response)
    /\ CallFailed(synth_response)
    /\ gen_calls = <<"parse", "synthesize">>

\* the steps of process_query in the order of the stages: parse, activate,
\* rank, synthesize and assemble, then the parse of the next query
StageOrder ==
    {<<"idle", "parse">>, <<"parse", "activate">>, <<"activate", "search">>,
     <<"search", "generate">>, <<"generate", "returned">>, <<"returned", "parse">>}

\* C16 as stated: every step is the next stage of the fixed order parse,
\* activate, rank, synthesize and assemble, each stage run once, and the parse
\* of a query begins only once the specification of the previous query has
\* been assembled
C16_StagesInOrder == [][(<<pc, pc'>> \in StageOrder)]_vars

\* C17: whatever calls of process_query have run and whatever the generation
\* calls answered, the knowledge base (its datasets, their fields, their order)
\* and the ontology graph are what was loaded at construction
C17_StoresReadOnly ==
    /\ knowledge_base = loaded.knowledge_base
    /\ ontology = loaded.ontology

\* a second or later call has returned, with a ranking the sort put in another
\* order than the knowledge base, and an ontology that activate has matched
C17_Witness ==
    /\ served
    /\ Returned
    /\ \E j, k \in 1..Len(relevant_data) :
           j < k /\ relevant_data[j].dataset > relevant_data[k].dataset
    /\ Len(ontology_context.relevant_concepts) > 0
    /\ knowledge_base = loaded.knowledge_base

\* the specification process_query builds from the query, the stores and the
\* answers of its two generation calls alone
SpecificationOf(q, kb, ont, parse_answer, synth_answer) ==
    LET parsed == ParseQueryResult(q, parse_answer)
    IN  BuildSpec(kb, q, parsed, ActivateOntology(ont, parsed),
                  SearchKnowledgeBase(kb, parsed), Workflow(synth_answer))

\* C18: no state carries over between queries.  A call starts with no parsed
\* intent, context or ranking of an earlier call, and the specification a call
\* returns on an agent that served other calls before is the one determined by
\* its query, the stores as loaded and the answers of its own two generation
\* calls
C18_NoStateCarriesOver ==
    /\ pc = "parse" =>
           /\ parsed_query = EmptyParsed("")
           /\ ontology_context = EmptyContext
           /\ relevant_data = <<>>
    /\ (Returned /\ served) =>
           analysis_spec = SpecificationOf(query, loaded.knowledge_base, loaded.ontology,
                                           parse_response, synth_response)

\* a call has returned a specification that names datasets and concepts, on an
\* agent that served another call before
C18_Witness ==
    /\ served
    /\ Returned
    /\ Len(analysis_spec.required_data) > 0
    /\ Len(analysis_spec.ontology_context.concepts) > 0
    /\ analysis_spec.parsed_query.intent # ""

\* _search_knowledge_base has just returned: relevant_data holds its result
RankReturned == pc = "generate"

\* the positions of the reasons that start with the text
ReasonsWith(reasons, text) == {j \in 1..Len(reasons) : startswith(reasons[j], text)}

\* the score the scoring table gives a list of reasons: 2 for a concept and for
\* an entity, 1 for the geometry and for a task
PointsOf(reasons) ==
    2 * Cardinality(ReasonsWith(reasons, "Matches concept: "))
    + 2 * Cardinality(ReasonsWith(reasons, "Contains entity: "))
    + Cardinality(ReasonsWith(reasons, "Geometry matches entity type"))
    + Cardinality(ReasonsWith(reasons, "Capable of related task: "))

\* the text of the dataset under dataset[context][key], lower-cased, empty
\* when the dataset has none
TextOf(dataset, context, key) ==
    IF context \in DOMAIN dataset /\ key \in DOMAIN dataset[context]
    THEN lower(dataset[context][key])
    ELSE ""

\* the positions of the concepts that, ignoring case, stand inside the domain
\* or inside the represents text of the dataset
ConceptsIn(dataset) ==
    {i \in 1..Len(parsed_query.concepts) :
        \/ contains(TextOf(dataset, "semantic_context", "domain"),
                    lower(parsed_query.concepts[i]))
        \/ contains(TextOf(dataset, "semantic_context", "represents"),
                    lower(parsed_query.concepts[i]))}

\* the entry of the ranking for dataset i of the knowledge base, when it has one
IsRanked(i) == \E j \in 1..Len(relevant_data) : relevant_data[j].dataset = i

EntryOf(i) ==
    relevant_data[CHOOSE j \in 1..Len(relevant_data) : relevant_data[j].dataset = i]

\* C19: every concept that, ignoring case, is inside the domain or inside the
\* represents text of a dataset adds exactly 2 to its score and exactly one
\* reason naming the concept, also when it is inside both
C19_ConceptAddsTwoOnce ==
    RankReturned =>
        \A i \in 1..Len(knowledge_base) :
            LET matching == ConceptsIn(knowledge_base[i])
            IN  /\ matching # {} => IsRanked(i)
                /\ IsRanked(i) =>
                       LET reasons == EntryOf(i).reasons
                       IN  /\ Cardinality(ReasonsWith(reasons, "Matches concept: "))
                                  = Cardinality(matching)
                           /\ \A c \in matching :
                                  \E j \in 1..Len(reasons) :
                                      reasons[j] = "Matches concept: "
                                                      \o lower(parsed_query.concepts[c])
                           /\ EntryOf(i).relevance_score = PointsOf(reasons)

\* rank has returned a dataset of domain "Residential density" for a concept
\* "density" that is inside its domain and inside its represents text, with the
\* reason citing it
C19_Witness ==
    /\ RankReturned
    /\ \E i \in 1..Len(knowledge_base) :
           /\ IsRanked(i)
           /\ TextOf(knowledge_base[i], "semantic_context", "domain") = "residential density"
           /\ contains(TextOf(knowledge_base[i], "semantic_context", "represents"), "density")
           /\ \E c \in ConceptsIn(knowledge_base[i]) : lower(parsed_query.concepts[c]) = "density"
           /\ EntryOf(i).relevance_score >= 2
           /\ \E j \in 1..Len(EntryOf(i).reasons) :
                  EntryOf(i).reasons[j] = "Matches concept: density"

\* the positions of the entities that, ignoring case, hold one of the words,
\* for a dataset whose geometry type holds the shape
EntitiesOfShape(dataset, words, shape) ==
    IF contains(TextOf(dataset, "spatial_context", "geometry_type"), shape)
    THEN {i \in 1..Len(parsed_query.entities) :
             \E w \in words : contains(lower(parsed_query.entities[i]), w)}
    ELSE {}

TasksOf(dataset) ==
    IF "capable_tasks" \in DOMAIN dataset THEN dataset.capable_tasks ELSE <<>>

\* the positions of the concepts that, ignoring case, stand inside the task
ConceptsInTask(task) ==
    {c \in 1..Len(parsed_query.concepts) :
        contains(lower(task), lower(parsed_query.concepts[c]))}

\* the positions of the capable tasks of the dataset that hold at least one
\* concept
MatchingTasks(dataset) ==
    {t \in 1..Len(TasksOf(dataset)) : ConceptsInTask(TasksOf(dataset)[t]) # {}}

\* C21: the capable-task contribution of a dataset is the number of its
\* capable tasks that hold at least one concept, ignoring case: every such
\* task adds 1 and one reason naming the task, however many concepts it holds
C21_TaskAddsOnePerTask ==
    RankReturned =>
        \A i \in 1..Len(knowledge_base) :
            LET tasks == TasksOf(knowledge_base[i])
                matching == MatchingTasks(knowledge_base[i])
            IN  /\ matching # {} => IsRanked(i)
                /\ IsRanked(i) =>
                       LET reasons == EntryOf(i).reasons
                           cited == ReasonsWith(reasons, "Capable of related task: ")
                       IN  /\ Cardinality(cited) = Cardinality(matching)
                           /\ \A t \in matching :
                                  Cardinality({j \in cited :
                                      reasons[j] = "Capable of related task: " \o tasks[t]})
                                      = Cardinality({u \in matching : tasks[u] = tasks[t]})
                           /\ EntryOf(i).relevance_score = PointsOf(reasons)

\* rank has returned a dataset one of whose tasks holds two of the concepts and
\* is cited once, another of whose tasks holds none
C21_Witness ==
    /\ RankReturned
    /\ \E i \in 1..Len(knowledge_base) :
           /\ IsRanked(i)
           /\ \E t \in 1..Len(TasksOf(knowledge_base[i])) :
                  Cardinality(ConceptsInTask(TasksOf(knowledge_base[i])[t])) = 2
           /\ \E t \in 1..Len(TasksOf(knowledge_base[i])) :
                  ConceptsInTask(TasksOf(knowledge_base[i])[t]) = {}
           /\ Cardinality(ReasonsWith(EntryOf(i).reasons, "Capable of related task: ")) = 1

\* the elements of the list
Range(list) == {list[i] : i \in 1..Len(list)}

\* the nodes of the graph that carry a label
LabelledNodes ==
    {ontology[k][1] : k \in {j \in 1..Len(ontology) : ontology[j][2] = RDFS_LABEL}}

\* what matchTerm is to return for the term: the labelled nodes of the type
\* with a label that, ignoring case, is inside the term or holds the term
NodesMatching(term, term_type) ==
    {n \in TypedNodes(term_type) \cap LabelledNodes : MatchingLabels(n, term) # {}}

\* C22: for every concept and every entity of the intent, matchTerm returns
\* exactly the labelled nodes of the requested type (PlanningConcept for a
\* concept, UrbanEntity for an entity) with a label that, ignoring case, is
\* inside the term or holds the term; it never returns a node of another type,
\* and activate holds nothing else
C22_MatchTermReturnsMatchingNodesOfType ==
    Activated =>
        /\ \A i \in 1..Len(parsed_query.concepts) :
               LET matches == FuzzyMatchOntologyTerm(ontology, parsed_query.concepts[i],
                                                     "PlanningConcept")
               IN  /\ Range(matches) = NodesMatching(parsed_query.concepts[i], "PlanningConcept")
                   /\ Range(matches) \subseteq Range(ontology_context.relevant_concepts)
        /\ \A i \in 1..Len(parsed_query.entities) :
               LET matches == FuzzyMatchOntologyTerm(ontology, parsed_query.entities[i],
                                                     "UrbanEntity")
               IN  /\ Range(matches) = NodesMatching(parsed_query.entities[i], "UrbanEntity")
                   /\ Range(matches) \subseteq Range(ontology_context.relevant_entities)
        /\ Range(ontology_context.relevant_concepts)
               = UNION {NodesMatching(parsed_query.concepts[i], "PlanningConcept") :
                           i \in 1..Len(parsed_query.concepts)}
        /\ Range(ontology_context.relevant_entities)
               = UNION {NodesMatching(parsed_query.entities[i], "UrbanEntity") :
                           i \in 1..Len(parsed_query.entities)}

\* activate has matched a concept that is inside the labels of nodes of every
\* type (the empty concept) and returned the labelled PlanningConcept nodes
\* only
C22_Witness ==
    /\ Activated
    /\ parsed_query.concepts = <<"">>
    /\ \E n \in TypedNodes("UrbanEntity") : MatchingLabels(n, "") # {}
    /\ \E n \in TypedNodes("PlanningConcept") : n \notin LabelledNodes
    /\ Range(ontology_context.relevant_concepts)
           = TypedNodes("PlanningConcept") \cap LabelledNodes

\* the outgoing edges of the node: the positions of the triples it is the
\* subject of
EdgesOf(node) == {k \in 1..Len(ontology) : ontology[k][1] = node}

\* an occurrence of an id in relevant_concepts paired with an outgoing edge of
\* that id
ConceptEdges ==
    UNION {{<<i, k>> : k \in EdgesOf(ontology_context.relevant_concepts[i])} :
           i \in 1..Len(ontology_context.relevant_concepts)}

\* C23: relationships holds one triple (subject, predicate, object) for every
\* outgoing edge of every occurrence of an id in relevant_concepts, its subject
\* that id: an edge of a concept stands in it as often as the concept stands in
\* relevant_concepts, its length is the sum of the out-degrees over
\* relevant_concepts counted with multiplicity, and no triple has another
\* subject, so the entity ids contribute none
C23_RelationshipsPerConceptOccurrence ==
    Activated =>
        LET relationships == ontology_context.relationships
        IN  /\ Len(relationships) = Cardinality(ConceptEdges)
            /\ \A p \in ConceptEdges :
                   Occurrences(relationships,
                               [subject |-> ontology[p[2]][1],
                                predicate |-> ontology[p[2]][2],
                                object |-> ontology[p[2]][3]])
                       = Occurrences(ontology_context.relevant_concepts, ontology[p[2]][1])
            /\ \A j \in 1..Len(relationships) :
                   /\ relationships[j].subject \in Range(ontology_context.relevant_concepts)
                   /\ <<relationships[j].subject, relationships[j].predicate,
                        relationships[j].object>> \in Range(ontology)
            /\ \A e \in Range(ontology_context.relevant_entities) :
                   e \notin Range(ontology_context.relevant_concepts)
                       => \A j \in 1..Len(relationships) : relationships[j].subject # e

\* activate has returned a concept id twice and its three edges twice each,
\* along with entity ids that have edges of their own
C23_Witness ==
    /\ Activated
    /\ \E n \in TypedNodes("PlanningConcept") :
           /\ Occurrences(ontology_context.relevant_concepts, n) = 2
           /\ Cardinality(EdgesOf(n)) = 3
           /\ Len(ontology_context.relationships) = 6
    /\ \E e \in Range(ontology_context.relevant_entities) : EdgesOf(e) # {}

\* the lines of the response with their surrounding whitespace removed
StrippedLines(text) ==
    LET lines == split(text, "\n") IN [i \in 1..Len(lines) |-> strip(lines[i])]

\* the positions of the lines that start with the marker
LinesStarting(text, marker) ==
    {i \in 1..Len(StrippedLines(text)) : startswith(StrippedLines(text)[i], marker)}

\* the comma-separated parts of the line after the marker it starts with, each
\* without its surrounding whitespace
PartsAfterMarker(line, marker) ==
    LET parts == split(Suffix(line, Len(marker) + 1), ",")
    IN  [i \in 1..Len(parts) |-> strip(parts[i])]

\* the field holds what the claim gives it: its empty default when no line
\* starts with the marker, else the parts after the marker of such a line
HoldsPartsAfterMarker(field, text, marker) ==
    IF LinesStarting(text, marker) = {}
    THEN field = <<>>
    ELSE \E i \in LinesStarting(text, marker) :
             field = PartsAfterMarker(StrippedLines(text)[i], marker)

\* C24 as stated: a marker counts only at the start of a stripped line; a field
\* whose marker starts no line keeps its empty default while the others are
\* filled; concepts, entities and filters are the comma-separated parts after
\* the marker, trimmed, in order, repetitions kept; spatial_relationships has
\* one element when a line starts with SPATIAL: and none otherwise
C24_FieldsHoldPartsAfterMarker ==
    (Parsed /\ parse_response.kind = "content") =>
        LET text == parse_response.content
        IN  /\ HoldsPartsAfterMarker(parsed_query.concepts, text, "CONCEPTS:")
            /\ HoldsPartsAfterMarker(parsed_query.entities, text, "ENTITIES:")
            /\ HoldsPartsAfterMarker(parsed_query.filters, text, "FILTERS:")
            /\ Len(parsed_query.spatial_relationships)
                   = IF LinesStarting(text, "SPATIAL:") = {} THEN 0 ELSE 1

\* the body inside a fenced block, with or without a tag after the opening
\* fence and with or without text before and after the block
Fenced(before, tag, body, after) ==
    before \o Fence \o tag \o "\n" \o body \o "\n" \o Fence \o after

\* the JSON objects the responses hold as workflows
WorkflowTexts == {JFull, JPartial, JInsufficient}

\* the fenced forms of the workflows: the response text and the workflow in it
FencedForms ==
    {[text |-> Fenced(before, tag, body, after), tag |-> tag, body |-> body,
      bare |-> (before = "" /\ after = "")] :
        before \in {"", "Here is the plan:\n", "Plan:\n"}, tag \in {"", "json"},
        body \in WorkflowTexts, after \in {"", "\nDone.", "\nEnd."}}

\* the specification the call would return had synthesize answered the text
SpecificationFor(text) ==
    BuildSpec(knowledge_base, query, parsed_query, ontology_context, relevant_data,
              Workflow(Content(text)))

\* C25: a response holding a JSON object workflow inside a fenced block, with
\* or without the json tag and with or without text around the block, gives
\* the analysis_workflow and the sufficiency_check of the same workflow
\* returned unwrapped, and the decoding does not fall back
C25_FencedEqualsUnwrapped ==
    (Returned /\ synth_response.kind = "content"
              /\ contains(synth_response.content, Fence)) =>
        \A f \in FencedForms :
            synth_response.content = f.text =>
                /\ JsonLoads(f.body).ok
                /\ ~DecodeFailed
                /\ analysis_spec.analysis_workflow
                       = SpecificationFor(f.body).analysis_workflow
                /\ analysis_spec.sufficiency_check
                       = SpecificationFor(f.body).sufficiency_check
                /\ analysis_spec.sufficiency_check.status # PyStr("unknown")

\* a specification returned on a workflow inside a fenced block without tag,
\* with text before and after the block
C25_Witness ==
    /\ Returned
    /\ \E f \in FencedForms :
           /\ synth_response.content = f.text
           /\ f.tag = ""
           /\ ~f.bare
    /\ analysis_spec.sufficiency_check.status = PyStr("insufficient")

\* the dataset has no semantic_context, or its semantic_context has no such key
Lacks(dataset, key) ==
    ~("semantic_context" \in DOMAIN dataset /\ key \in DOMAIN dataset.semantic_context)

\* the positions of the entities that, ignoring case, stand inside the
\* represents text of the dataset
EntitiesIn(dataset) ==
    {i \in 1..Len(parsed_query.entities) :
        contains(TextOf(dataset, "semantic_context", "represents"),
                 lower(parsed_query.entities[i]))}

\* the reasons the entry gives for a term that is not empty
CitesTerm(reasons, text) ==
    {j \in ReasonsWith(reasons, text) : Len(reasons[j]) > Len(text)}

\* C26: a dataset without semantic_context, or without its represents or its
\* domain, is ranked like one whose missing field is the empty string: the
\* missing field matches no concept and no entity that is not empty, and the
\* dataset still gets its geometry and capable-task points
C26_MissingSemanticFieldsAreEmpty ==
    RankReturned =>
        \A i \in 1..Len(knowledge_base) :
            LET dataset == knowledge_base[i]
                geometry == EntitiesOfShape(dataset, {"parcel", "building"}, "polygon")
                                \cup EntitiesOfShape(dataset, {"transit", "stop"}, "point")
                tasks == MatchingTasks(dataset)
            IN  (Lacks(dataset, "represents") \/ Lacks(dataset, "domain")) =>
                    /\ (geometry # {} \/ tasks # {}) => IsRanked(i)
                    /\ IsRanked(i) =>
                           LET reasons == EntryOf(i).reasons
                           IN  /\ Lacks(dataset, "represents") =>
                                      CitesTerm(reasons, "Contains entity: ") = {}
                               /\ (Lacks(dataset, "represents") /\ Lacks(dataset, "domain")) =>
                                      CitesTerm(reasons, "Matches concept: ") = {}
                               /\ Cardinality(ReasonsWith(reasons, "Matches concept: "))
                                      = Cardinality(ConceptsIn(dataset))
                               /\ Cardinality(ReasonsWith(reasons, "Contains entity: "))
                                      = Cardinality(EntitiesIn(dataset))
                               /\ Cardinality(ReasonsWith(reasons,
                                                  "Geometry matches entity type"))
                                      = Cardinality(geometry)
                               /\ Cardinality(ReasonsWith(reasons,
                                                  "Capable of related task: "))
                                      = Cardinality(tasks)
                               /\ EntryOf(i).relevance_score = PointsOf(reasons)

\* rank has returned, for concepts and entities that are not empty, a dataset
\* without semantic_context on its geometry and its task alone, a dataset
\* without represents on its domain, and a dataset without domain on its
\* represents text
C26_Witness ==
    /\ RankReturned
    /\ \A c \in 1..Len(parsed_query.concepts) : parsed_query.concepts[c] # ""
    /\ \A e \in 1..Len(parsed_query.entities) : parsed_query.entities[e] # ""
    /\ \E i, j, k \in 1..Len(knowledge_base) :
           /\ "semantic_context" \notin DOMAIN knowledge_base[i]
           /\ IsRanked(i)
           /\ EntryOf(i).relevance_score = 2
           /\ Len(EntryOf(i).reasons) = 2
           /\ "semantic_context" \in DOMAIN knowledge_base[j]
           /\ "represents" \notin DOMAIN knowledge_base[j].semantic_context
           /\ IsRanked(j)
           /\ ReasonsWith(EntryOf(j).reasons, "Matches concept: ") # {}
           /\ "semantic_context" \in DOMAIN knowledge_base[k]
           /\ "domain" \notin DOMAIN knowledge_base[k].semantic_context
           /\ IsRanked(k)
           /\ ReasonsWith(EntryOf(k).reasons, "Contains entity: ") # {}

\* the fields _analyze_fields analyses: the first max_fields features
FieldsToAnalyze ==
    IF "features" \in DOMAIN file_meta THEN Prefix(file_meta.features, max_fields) ELSE <<>>

\* the names the FIELD: lines of the response give
NamedInResponse ==
    IF field_response.kind # "content" THEN {}
    ELSE {strip(Suffix(StrippedLines(field_response.content)[i], Len("FIELD:") + 1)) :
             i \in LinesStarting(field_response.content, "FIELD:")}

\* C27 as stated: for a dataset with features, whatever the response holds, the
\* returned list has an entry for each of the first max_fields fields, and a
\* field the response did not cover has the 'Parse failed' entry
C27_ResultsForAllFields ==
    (mda_pc = "analysed" /\ FieldsToAnalyze # <<>>) =>
        \A i \in 1..Len(FieldsToAnalyze) :
            /\ \E j \in 1..Len(analyzed_fields) :
                   analyzed_fields[j].name = FieldsToAnalyze[i].name
            /\ (field_response.kind = "content"
                   /\ FieldsToAnalyze[i].name \notin NamedInResponse) =>
                   \E j \in 1..Len(analyzed_fields) :
                       analyzed_fields[j] = BasicInfo(FieldsToAnalyze[i], "Parse failed")

\* the reasons worth 2: a concept match or an entity match
TwoPointReasons(reasons) ==
    ReasonsWith(reasons, "Matches concept: ") \cup ReasonsWith(reasons, "Contains entity: ")

\* the reasons worth 1: a geometry match or a capable task
OnePointReasons(reasons) ==
    ReasonsWith(reasons, "Geometry matches entity type")
        \cup ReasonsWith(reasons, "Capable of related task: ")

\* C28: every entry of the ranking has at least one reason, a score between
\* the number of its reasons and twice that number, and the score is 2 for
\* every concept or entity reason plus 1 for every geometry or capable-task
\* reason: every contribution appends exactly one reason, nothing else changes
\* the score, and the score is never negative
C28_ScoreBoundedByReasons ==
    RankReturned =>
        \A j \in 1..Len(relevant_data) :
            LET reasons == relevant_data[j].reasons
                score == relevant_data[j].relevance_score
            IN  /\ 1 <= Len(reasons)
                /\ Len(reasons) <= score
                /\ score <= 2 * Len(reasons)
                /\ score = 2 * Cardinality(TwoPointReasons(reasons))
                               + Cardinality(OnePointReasons(reasons))
                /\ TwoPointReasons(reasons) \cup OnePointReasons(reasons) = 1..Len(reasons)
                /\ TwoPointReasons(reasons) \cap OnePointReasons(reasons) = {}
                /\ score >= 0

\* rank has returned an entry with reasons worth 2 and reasons worth 1, two of
\* them the same geometry reason, and an entry whose reasons are all worth 1
C28_Witness ==
    /\ RankReturned
    /\ \E j \in 1..Len(relevant_data) :
           LET reasons == relevant_data[j].reasons
           IN  /\ TwoPointReasons(reasons) # {}
               /\ Cardinality(ReasonsWith(reasons, "Geometry matches entity type")) = 2
               /\ Len(reasons) < relevant_data[j].relevance_score
               /\ relevant_data[j].relevance_score < 2 * Len(reasons)
    /\ \E j \in 1..Len(relevant_data) :
           relevant_data[j].relevance_score = Len(relevant_data[j].reasons)

\* _parse_query has just returned: parsed_query holds its result
ParseReturned == pc = "activate"

\* the call of parse succeeded and the CONCEPTS: lines of its response hold
\* nothing after the marker
BareConceptsLine ==
    /\ parse_response.kind = "content"
    /\ LinesStarting(parse_response.content, "CONCEPTS:") # {}
    /\ \A i \in LinesStarting(parse_response.content, "CONCEPTS:") :
           StrippedLines(parse_response.content)[i] = "CONCEPTS:"

\* C29: when the parse response has a CONCEPTS: line with nothing after the
\* marker, concepts is the one-element list holding the empty string, and rank
\* returns every dataset of the knowledge base, each with a score of at least
\* 2: the score > 0 filter excludes nothing
C29_BareConceptsLineRanksEverything ==
    /\ (ParseReturned /\ BareConceptsLine) => parsed_query.concepts = <<"">>
    /\ (RankReturned /\ BareConceptsLine) =>
           /\ Len(relevant_data) = Len(knowledge_base)
           /\ \A i \in 1..Len(knowledge_base) : IsRanked(i)
           /\ \A j \in 1..Len(relevant_data) :
                  /\ relevant_data[j].relevance_score >= 2
                  /\ \E k \in 1..Len(relevant_data[j].reasons) :
                         relevant_data[j].reasons[k] = "Matches concept: "

\* rank has returned, on a bare CONCEPTS: line, both datasets of a knowledge
\* base one of which has no semantic_context, no geometry and no tasks
C29_Witness ==
    /\ RankReturned
    /\ BareConceptsLine
    /\ parsed_query.concepts = <<"">>
    /\ Len(knowledge_base) = 2
    /\ \E i \in 1..Len(knowledge_base) : DOMAIN knowledge_base[i] = DOMAIN BareTable
    /\ Len(relevant_data) = 2

\* a stage of the running call degraded: the generation call of parse failed,
\* or rank returned no dataset
DegradedCall ==
    CallFailed(parse_response) \/ (Ranked /\ relevant_data = <<>>)

\* the steps that run the stages after parse, none skipped
StagesAfterParse ==
    {<<"activate", "search">>, <<"search", "generate">>, <<"generate", "returned">>}

\* C30 as stated: degradation in one stage never short-circuits the pipeline.
\* After a failed parse call or an empty ranking every step of process_query
\* is the next stage (activate, rank, synthesize), synthesize issues its
\* generation call and a specification is assembled and returned; every
\* completed call has issued exactly two generation calls, parse before
\* synthesize
C30_DegradationNeverShortCircuits ==
    [][(/\ (DegradedCall /\ pc \in {"activate", "search", "generate"}) =>
               /\ <<pc, pc'>> \in StagesAfterParse
               /\ pc = "generate" =>
                      /\ gen_calls' = <<"parse", "synthesize">>
                      /\ analysis_spec' # NoSpec
                      /\ analysis_spec'.parsed_query = parsed_query
        /\ pc' \in {"returned", "raised"} => gen_calls' = <<"parse", "synthesize">>)]_vars

=============================================================================
